---- MODULE Spec2Model ----
(***************************************************************************)
(* b_stb: draining a hyper Body (chunk source) or an AsyncRead (generic    *)
(* reader) into a byte vector or a String, plus the byte utilities.        *)
(*                                                                         *)
(* One behaviour is one test-like run: a source is fixed, then the         *)
(* operations listed in `todo` are called one after the other, each on a   *)
(* fresh source with the same content.  Every `body.next().await` and      *)
(* every `reader.read(..).await` is one step.                              *)
(*                                                                         *)
(* A String is represented by the sequence of its UTF-8 bytes.             *)
(***************************************************************************)
EXTENDS Integers, Sequences, FiniteSets

\* ---- bounds ----
MaxChunks == 2
MaxBodyLen == 3
MaxBufferSize == 2
MaxPayloadLen == 3
MaxTextLen == 4
MaxConcatChunks == 3

\* ---- byte alphabets ----
\* 'a', and the three bytes of U+20AC (E2 82 AC)
Byte == {97, 226, 130, 172}
\* 'a', continuation bytes 80 90 A0, lead bytes C2 E0 ED F0 F4, and FF
UtilByte == {97, 128, 144, 160, 194, 224, 237, 240, 244, 255}

SeqsUpTo(S, n) == UNION {[1..k -> S] : k \in 0..n}

Min(a, b) == IF a < b THEN a ELSE b

\* the ways to cut a payload of n bytes into at most m chunks (empty chunks
\* allowed): the end offsets of the chunks
CutSeqs(n, m) ==
  {c \in SeqsUpTo(0..n, m) :
     /\ \A i \in 1..(Len(c) - 1) : c[i] <= c[i + 1]
     /\ IF c = <<>> THEN n = 0 ELSE c[Len(c)] = n}

Pieces(p, c) ==
  [i \in 1..Len(c) |-> SubSeq(p, (IF i = 1 THEN 0 ELSE c[i - 1]) + 1, c[i])]

\* every chunk sequence of at most m chunks with at most n bytes in total
ChunkSeqs(n, m) ==
  UNION {{Pieces(p, c) : c \in CutSeqs(Len(p), m)} : p \in SeqsUpTo(Byte, n)}

\* ---- results ----
Pending == [tag |-> "Pending"]
Ok(v) == [tag |-> "Ok", val |-> v]
Err(k) == [tag |-> "Err", kind |-> k]
Some(v) == [tag |-> "Some", val |-> v]
None == [tag |-> "None"]
\* a plain (non-Result, non-Option) return value
Value(v) == [tag |-> "Value", val |-> v]

VARIABLES
  buffer_size,   \* StreamConverter.buffer_size
  chunks,        \* the Bytes chunks the Body yields / the argument of concat_bytes
  fail,          \* the Body yields a hyper::Error after its last chunk
  data,          \* the reader's payload / the argument of bytes_to_string
  failAt,        \* the reader's read number failAt returns an io::Error (0: never)
  todo,          \* operations still to be called
  call,          \* operation in progress, "none" between calls
  polls,         \* per operation: body.next() / reader.read() calls made
  reads,         \* per operation: the byte counts its successful reads returned
  pos,           \* the reader's cursor into data
  bytes,         \* local `bytes` / `result` of the call in progress
  buffer,        \* local working `buffer` of to_bytes / to_string
  ret            \* per operation: the value returned

vars == <<buffer_size, chunks, fail, data, failAt, todo, call, polls, reads, pos, bytes, buffer, ret>>

BodyOps == {"body_to_bytes", "body_to_string", "process_stream"}
ReaderOps == {"to_bytes", "to_string"}
UtilOps == {"bytes_to_string", "concat_bytes"}
Ops == BodyOps \cup ReaderOps \cup UtilOps

\* ---- std: Vec::extend_from_slice / String::push_str ----
extend_from_slice(vec, slice) == vec \o slice

\* ---- std: String::from_utf8 (core::str::from_utf8 validation) ----
utf8_char_width(b) ==
  IF b < 128 THEN 1
  ELSE IF b < 194 THEN 0
  ELSE IF b < 224 THEN 2
  ELSE IF b < 240 THEN 3
  ELSE IF b < 245 THEN 4
  ELSE 0

IsCont(b) == b >= 128 /\ b <= 191

\* the (first, second) byte pairs accepted for a sequence of width w
SecondOk(w, first, second) ==
  CASE w = 2 -> IsCont(second)
    [] w = 3 -> \/ first = 224 /\ second >= 160 /\ second <= 191
                \/ first >= 225 /\ first <= 236 /\ IsCont(second)
                \/ first = 237 /\ second >= 128 /\ second <= 159
                \/ first >= 238 /\ first <= 239 /\ IsCont(second)
    [] w = 4 -> \/ first = 240 /\ second >= 144 /\ second <= 191
                \/ first >= 241 /\ first <= 243 /\ IsCont(second)
                \/ first = 244 /\ second >= 128 /\ second <= 143
    [] OTHER -> FALSE

RECURSIVE run_utf8_validation(_, _)
run_utf8_validation(v, index) ==
  IF index > Len(v) THEN TRUE
  ELSE LET first == v[index]
           w == utf8_char_width(first)
       IN IF w = 1 THEN run_utf8_validation(v, index + 1)
          ELSE IF w = 0 THEN FALSE
          ELSE IF index + w - 1 > Len(v) THEN FALSE
          ELSE /\ SecondOk(w, first, v[index + 1])
               /\ \A j \in (index + 2)..(index + w - 1) : IsCont(v[j])
               /\ run_utf8_validation(v, index + w)

\* Result<String, FromUtf8Error>
from_utf8(v) == IF run_utf8_validation(v, 1) THEN Ok(v) ELSE Err("FromUtf8Error")

\* .map_err(StreamConverterError::EncodingError)
map_err_EncodingError(r) == IF r.tag = "Ok" THEN r ELSE Err("EncodingError")

\* ---- the chunk source: hyper::Body as a Stream ----
\* what the n-th call of body.next() yields
BodyNext(n) ==
  IF n <= Len(chunks) THEN [tag |-> "Chunk", val |-> chunks[n]]
  ELSE IF fail /\ n = Len(chunks) + 1 THEN [tag |-> "Err"]
  ELSE [tag |-> "None"]

\* ---- the generic reader: AsyncReadExt::read ----
\* byte counts a read into a buffer of capacity cap may return when `remaining`
\* bytes are left: 0 only at end of data or with an empty buffer
ReadSizes(cap, remaining) ==
  IF cap = 0 \/ remaining = 0 THEN {0} ELSE 1..Min(cap, remaining)

\* the working buffer after a read that filled its first n bytes
ReadInto(buf, n) ==
  [i \in 1..Len(buf) |-> IF i <= n THEN data[pos + i] ELSE buf[i]]

\* ---- constructors ----
default_buffer_size == 8192
new == 8192
with_buffer_size(n) == n

CustomSizes == {with_buffer_size(n) : n \in 0..MaxBufferSize}
BufferSizes == {new} \cup CustomSizes

\* variant: the working buffer is never allocated empty
vec_zeroed_at_least_one(n) == [i \in 1..(IF n = 0 THEN 1 ELSE n) |-> 0]

\* vec![0; self.buffer_size]
vec_zeroed(n) == [i \in 1..n |-> 0]

\* ---- calling an operation and returning from it ----
Call(o) ==
  /\ call = "none"
  /\ todo # <<>>
  /\ Head(todo) = o
  /\ call' = o
  /\ todo' = Tail(todo)
  /\ bytes' = <<>>
  /\ buffer' = IF o \in ReaderOps THEN vec_zeroed(buffer_size) ELSE <<>>
  /\ pos' = 0
  /\ UNCHANGED <<buffer_size, chunks, fail, data, failAt, polls, reads, ret>>

Return(o, r) ==
  /\ ret' = [ret EXCEPT ![o] = r]
  /\ call' = "none"
  /\ bytes' = <<>>
  /\ buffer' = <<>>
  /\ pos' = 0

\* ---- StreamConverter::body_to_bytes ----
\* variant: `bytes = chunk.to_vec()` instead of extend_from_slice
body_to_bytes_step_overwrite(n, acc) ==
  LET item == BodyNext(n)
  IN CASE item.tag = "Chunk" -> [done |-> FALSE, bytes |-> item.val]
       [] item.tag = "Err" -> [done |-> TRUE, ret |-> Err("HyperError")]
       [] OTHER -> [done |-> TRUE, ret |-> Ok(acc)]

\* variant: a failed pull ends the loop and the bytes so far are returned
body_to_bytes_step_partial(n, acc) ==
  LET item == BodyNext(n)
  IN CASE item.tag = "Chunk" -> [done |-> FALSE, bytes |-> extend_from_slice(acc, item.val)]
       [] OTHER -> [done |-> TRUE, ret |-> Ok(acc)]

\* one iteration of `while let Some(chunk) = body.next().await`, n-th pull
body_to_bytes_step(n, acc) ==
  LET item == BodyNext(n)
  IN CASE item.tag = "Chunk" -> [done |-> FALSE, bytes |-> extend_from_slice(acc, item.val)]
       [] item.tag = "Err" -> [done |-> TRUE, ret |-> Err("HyperError")]
       [] OTHER -> [done |-> TRUE, ret |-> Ok(acc)]

BodyToBytes ==
  /\ call = "body_to_bytes"
  /\ LET s == body_to_bytes_step(polls[call] + 1, bytes)
     IN /\ polls' = [polls EXCEPT ![call] = @ + 1]
        /\ IF s.done THEN Return(call, s.ret)
           ELSE bytes' = s.bytes /\ UNCHANGED <<call, buffer, pos, ret>>
  /\ UNCHANGED <<buffer_size, chunks, fail, data, failAt, todo, reads>>

\* ---- StreamConverter::body_to_string ----
\* `self.body_to_bytes(body).await?` then String::from_utf8(bytes).map_err(..)
body_to_string_finish(r) ==
  IF r.tag = "Ok" THEN map_err_EncodingError(from_utf8(r.val)) ELSE r

\* variant: every chunk is validated on arrival
BodyToString_per_chunk ==
  /\ call = "body_to_string"
  /\ LET s == body_to_bytes_step(polls[call] + 1, bytes)
         item == BodyNext(polls[call] + 1)
     IN /\ polls' = [polls EXCEPT ![call] = @ + 1]
        /\ IF s.done THEN Return(call, s.ret)
           ELSE IF from_utf8(item.val).tag = "Err" THEN Return(call, Err("EncodingError"))
           ELSE bytes' = s.bytes /\ UNCHANGED <<call, buffer, pos, ret>>
  /\ UNCHANGED <<buffer_size, chunks, fail, data, failAt, todo, reads>>

BodyToString ==
  /\ call = "body_to_string"
  /\ LET s == body_to_bytes_step(polls[call] + 1, bytes)
     IN /\ polls' = [polls EXCEPT ![call] = @ + 1]
        /\ IF s.done THEN Return(call, body_to_string_finish(s.ret))
           ELSE bytes' = s.bytes /\ UNCHANGED <<call, buffer, pos, ret>>
  /\ UNCHANGED <<buffer_size, chunks, fail, data, failAt, todo, reads>>

\* ---- process::process_stream ----
\* variant: an empty chunk is taken for the end of the stream
process_stream_step_stop_at_empty(n, acc) ==
  LET item == BodyNext(n)
  IN CASE item.tag = "Chunk" /\ item.val # <<>> ->
            [done |-> FALSE, bytes |-> extend_from_slice(acc, item.val)]
       [] item.tag = "Err" -> [done |-> TRUE, ret |-> Err("HyperError")]
       [] OTHER -> [done |-> TRUE, ret |-> Ok(acc)]

process_stream_step(n, acc) ==
  LET item == BodyNext(n)
  IN CASE item.tag = "Chunk" -> [done |-> FALSE, bytes |-> extend_from_slice(acc, item.val)]
       [] item.tag = "Err" -> [done |-> TRUE, ret |-> Err("HyperError")]
       [] OTHER -> [done |-> TRUE, ret |-> Ok(acc)]

ProcessStream ==
  /\ call = "process_stream"
  /\ LET s == process_stream_step(polls[call] + 1, bytes)
     IN /\ polls' = [polls EXCEPT ![call] = @ + 1]
        /\ IF s.done THEN Return(call, s.ret)
           ELSE bytes' = s.bytes /\ UNCHANGED <<call, buffer, pos, ret>>
  /\ UNCHANGED <<buffer_size, chunks, fail, data, failAt, todo, reads>>

\* ---- StreamConverter::to_bytes ----
\* the loop body after a read that returned Ok(n) and left the buffer as buf
\* variant: `result.extend_from_slice(&buffer)`, the whole working buffer
to_bytes_step_whole_buffer(n, buf, acc) ==
  IF n = 0 THEN [done |-> TRUE, ret |-> Ok(acc)]
  ELSE [done |-> FALSE, bytes |-> extend_from_slice(acc, buf)]

to_bytes_step(n, buf, acc) ==
  IF n = 0 THEN [done |-> TRUE, ret |-> Ok(acc)]
  ELSE [done |-> FALSE, bytes |-> extend_from_slice(acc, SubSeq(buf, 1, n))]

\* variant: a failed read ends the loop and the bytes so far are returned
ToBytes_partial ==
  /\ call = "to_bytes"
  /\ polls' = [polls EXCEPT ![call] = @ + 1]
  /\ IF failAt = polls[call] + 1
     THEN Return(call, Ok(bytes)) /\ UNCHANGED reads
     ELSE \E n \in ReadSizes(Len(buffer), Len(data) - pos) :
            LET buf == ReadInto(buffer, n)
                s == to_bytes_step(n, buf, bytes)
            IN /\ reads' = [reads EXCEPT ![call] = Append(@, n)]
               /\ IF s.done THEN Return(call, s.ret)
                  ELSE /\ bytes' = s.bytes
                       /\ buffer' = buf
                       /\ pos' = pos + n
                       /\ UNCHANGED <<call, ret>>
  /\ UNCHANGED <<buffer_size, chunks, fail, data, failAt, todo>>

ToBytes ==
  /\ call = "to_bytes"
  /\ polls' = [polls EXCEPT ![call] = @ + 1]
  /\ IF failAt = polls[call] + 1
     THEN Return(call, Err("IoError")) /\ UNCHANGED reads
     ELSE \E n \in ReadSizes(Len(buffer), Len(data) - pos) :
            LET buf == ReadInto(buffer, n)
                s == to_bytes_step(n, buf, bytes)
            IN /\ reads' = [reads EXCEPT ![call] = Append(@, n)]
               /\ IF s.done THEN Return(call, s.ret)
                  ELSE /\ bytes' = s.bytes
                       /\ buffer' = buf
                       /\ pos' = pos + n
                       /\ UNCHANGED <<call, ret>>
  /\ UNCHANGED <<buffer_size, chunks, fail, data, failAt, todo>>

\* ---- StreamConverter::to_string ----
\* variant: the bytes are collected and validated once, at end of data
to_string_step_validate_at_end(n, buf, acc) ==
  IF n = 0 THEN [done |-> TRUE, ret |-> map_err_EncodingError(from_utf8(acc))]
  ELSE [done |-> FALSE, bytes |-> extend_from_slice(acc, SubSeq(buf, 1, n))]

to_string_step(n, buf, acc) ==
  IF n = 0 THEN [done |-> TRUE, ret |-> Ok(acc)]
  ELSE LET chunk == map_err_EncodingError(from_utf8(SubSeq(buf, 1, n)))
       IN IF chunk.tag = "Err" THEN [done |-> TRUE, ret |-> chunk]
          ELSE [done |-> FALSE, bytes |-> extend_from_slice(acc, chunk.val)]

ToString ==
  /\ call = "to_string"
  /\ polls' = [polls EXCEPT ![call] = @ + 1]
  /\ IF failAt = polls[call] + 1
     THEN Return(call, Err("IoError")) /\ UNCHANGED reads
     ELSE \E n \in ReadSizes(Len(buffer), Len(data) - pos) :
            LET buf == ReadInto(buffer, n)
                s == to_string_step(n, buf, bytes)
            IN /\ reads' = [reads EXCEPT ![call] = Append(@, n)]
               /\ IF s.done THEN Return(call, s.ret)
                  ELSE /\ bytes' = s.bytes
                       /\ buffer' = buf
                       /\ pos' = pos + n
                       /\ UNCHANGED <<call, ret>>
  /\ UNCHANGED <<buffer_size, chunks, fail, data, failAt, todo>>

\* ---- util::bytes_to_string ----
\* variant: String::from_utf8_unchecked, always Some
bytes_to_string_unchecked(b) == Some(b)

\* String::from_utf8(bytes.to_vec()).ok()
bytes_to_string(b) ==
  LET r == from_utf8(b) IN IF r.tag = "Ok" THEN Some(r.val) ELSE None

BytesToString ==
  /\ call = "bytes_to_string"
  /\ polls' = [polls EXCEPT ![call] = @ + 1]
  /\ Return(call, bytes_to_string(data))
  /\ UNCHANGED <<buffer_size, chunks, fail, data, failAt, todo, reads>>

\* ---- util::concat_bytes ----
\* variant: every chunk is put in front of the result
RECURSIVE concat_loop_prepend(_, _)
concat_loop_prepend(result, cs) ==
  IF cs = <<>> THEN result
  ELSE concat_loop_prepend(extend_from_slice(Head(cs), result), Tail(cs))

\* `for chunk in chunks { result.extend_from_slice(&chunk) }` from `result`
RECURSIVE concat_loop(_, _)
concat_loop(result, cs) ==
  IF cs = <<>> THEN result
  ELSE concat_loop(extend_from_slice(result, Head(cs)), Tail(cs))

concat_bytes(cs) == concat_loop(<<>>, cs)

ConcatBytes ==
  /\ call = "concat_bytes"
  /\ polls' = [polls EXCEPT ![call] = @ + 1]
  /\ Return(call, Value(concat_bytes(chunks)))
  /\ UNCHANGED <<buffer_size, chunks, fail, data, failAt, todo, reads>>

\* ---- initial states ----
InitLocals ==
  /\ call = "none"
  /\ polls = [o \in Ops |-> 0]
  /\ reads = [o \in Ops |-> <<>>]
  /\ pos = 0
  /\ bytes = <<>>
  /\ buffer = <<>>
  /\ ret = [o \in Ops |-> Pending]

InitBody ==
  /\ buffer_size \in BufferSizes
  /\ chunks \in ChunkSeqs(MaxBodyLen, MaxChunks)
  /\ fail \in BOOLEAN
  /\ data = <<>>
  /\ failAt = 0
  /\ todo = <<"body_to_bytes", "body_to_string", "process_stream">>
  /\ InitLocals

\* every payload with every custom buffer size and every failing read
InitReaderCustom ==
  /\ buffer_size \in CustomSizes
  /\ chunks = <<>>
  /\ fail = FALSE
  /\ data \in SeqsUpTo(Byte, MaxPayloadLen)
  /\ failAt \in 0..(MaxPayloadLen + 1)
  /\ todo = <<"to_bytes", "to_string">>
  /\ InitLocals

\* the default-sized buffer with an all-'a' payload (as in test_large_body)
InitReaderDefault ==
  /\ buffer_size = new
  /\ chunks = <<>>
  /\ fail = FALSE
  /\ data = [i \in 1..MaxPayloadLen |-> 97]
  /\ failAt = 0
  /\ todo = <<"to_bytes", "to_string">>
  /\ InitLocals

InitReader == InitReaderCustom \/ InitReaderDefault

InitUtil ==
  /\ buffer_size = default_buffer_size
  /\ fail = FALSE
  /\ failAt = 0
  /\ \/ /\ data \in SeqsUpTo(UtilByte, MaxTextLen)
        /\ chunks = <<>>
        /\ todo = <<"bytes_to_string">>
     \/ /\ data = <<>>
        /\ chunks \in ChunkSeqs(MaxBodyLen, MaxConcatChunks)
        /\ todo = <<"concat_bytes">>
  /\ InitLocals

Init == InitBody \/ InitReader \/ InitUtil

NextBody ==
  \/ \E o \in BodyOps : Call(o)
  \/ BodyToBytes
  \/ BodyToString
  \/ ProcessStream

NextReader ==
  \/ \E o \in ReaderOps : Call(o)
  \/ ToBytes
  \/ ToString

NextUtil ==
  \/ \E o \in UtilOps : Call(o)
  \/ BytesToString
  \/ ConcatBytes

Next == NextBody \/ NextReader \/ NextUtil

SpecBody == InitBody /\ [][NextBody]_vars
SpecReader == InitReader /\ [][NextReader]_vars
\* a reader answers every read and the caller keeps polling the future
SpecReaderLive == InitReaderCustom /\ [][NextReader]_vars /\ WF_vars(NextReader)
SpecUtil == InitUtil /\ [][NextUtil]_vars
Spec == Init /\ [][Next]_vars
\* ======================================================================
\* Reference notions the properties are stated with
\* ======================================================================

\* total length of the first k chunks
RECURSIVE SumLen(_, _)
SumLen(cs, k) == IF k = 0 THEN 0 ELSE SumLen(cs, k - 1) + Len(cs[k])

\* c1 ++ c2 ++ ... ++ cn, byte by byte: byte i lies in the chunk whose span covers i
Flat(cs) ==
  [i \in 1..SumLen(cs, Len(cs)) |->
     LET k == CHOOSE k \in 1..Len(cs) : SumLen(cs, k - 1) < i /\ i <= SumLen(cs, k)
     IN cs[k][i - SumLen(cs, k - 1)]]

\* UTF-8 as defined by the encoding (RFC 3629): a text is a concatenation of
\* encoded Unicode scalar values
IsScalar(cp) == cp >= 0 /\ cp <= 1114111 /\ ~(cp >= 55296 /\ cp <= 57343)

Utf8Encode(cp) ==
  IF cp < 128 THEN <<cp>>
  ELSE IF cp < 2048 THEN <<192 + (cp \div 64), 128 + (cp % 64)>>
  ELSE IF cp < 65536
    THEN <<224 + (cp \div 4096), 128 + ((cp \div 64) % 64), 128 + (cp % 64)>>
  ELSE <<240 + (cp \div 262144), 128 + ((cp \div 4096) % 64),
         128 + ((cp \div 64) % 64), 128 + (cp % 64)>>

Utf8Decode(t) ==
  CASE Len(t) = 1 -> t[1]
    [] Len(t) = 2 -> ((t[1] % 32) * 64) + (t[2] % 64)
    [] Len(t) = 3 -> ((t[1] % 16) * 4096) + ((t[2] % 64) * 64) + (t[3] % 64)
    [] OTHER -> ((t[1] % 8) * 262144) + ((t[2] % 64) * 4096) + ((t[3] % 64) * 64) + (t[4] % 64)

IsEncodedScalar(t) == IsScalar(Utf8Decode(t)) /\ Utf8Encode(Utf8Decode(t)) = t

RECURSIVE IsUtf8Text(_)
IsUtf8Text(b) ==
  \/ b = <<>>
  \/ \E k \in 1..Min(4, Len(b)) :
       /\ IsEncodedScalar(SubSeq(b, 1, k))
       /\ IsUtf8Text(SubSeq(b, k + 1, Len(b)))

Done(o) == ret[o] # Pending

\* ======================================================================
\* Chunk-source operations (SpecBody)
\* ======================================================================

\* C1: on a source that delivers its chunks without error, body_to_bytes
\* pulls until the source signals completion (one pull per chunk and the
\* final one) and returns Ok with exactly the concatenation of the chunks
\* in delivery order; while it runs, its buffer is the concatenation of the
\* chunks pulled so far.
C1_BodyToBytesConcat ==
  /\ (call = "body_to_bytes" /\ polls["body_to_bytes"] <= Len(chunks))
       => bytes = Flat(SubSeq(chunks, 1, polls["body_to_bytes"]))
  /\ (Done("body_to_bytes") /\ ~fail)
       => /\ ret["body_to_bytes"] = Ok(Flat(chunks))
          /\ polls["body_to_bytes"] = Len(chunks) + 1

C1_Witness ==
  /\ ~fail
  /\ Len(chunks) = 2 /\ chunks[1] # <<>> /\ chunks[2] # <<>> /\ chunks[1] # chunks[2]
  /\ ret["body_to_bytes"] = Ok(chunks[1] \o chunks[2])

\* C2: on an error-free source body_to_string returns Ok(the concatenation)
\* exactly when the concatenation of all chunks is UTF-8 text, and an
\* Encoding error otherwise, wherever the chunk boundaries fall.
C2_BodyToStringWholeBuffer ==
  (Done("body_to_string") /\ ~fail)
    => /\ IsUtf8Text(Flat(chunks)) => ret["body_to_string"] = Ok(Flat(chunks))
       /\ ~IsUtf8Text(Flat(chunks)) => ret["body_to_string"] = Err("EncodingError")

\* the code point U+20AC split as [E2 82] [AC]
C2_Witness ==
  /\ ~fail
  /\ chunks = << <<226, 130>>, <<172>> >>
  /\ ret["body_to_string"] = Ok(<<226, 130, 172>>)

\* C4: when the source fails on pull N+1 after N chunks, each of
\* body_to_bytes, body_to_string and process_stream returns a Transport
\* (HyperError) error and nothing else, and has made exactly N+1 pulls; no
\* operation ever pulls past the failing pull.
C4_TransportAbort ==
  \A o \in BodyOps :
    fail => /\ polls[o] <= Len(chunks) + 1
            /\ Done(o) => (ret[o] = Err("HyperError") /\ polls[o] = Len(chunks) + 1)

\* a Transport error although the chunks delivered before it are not UTF-8
C4_Witness ==
  /\ fail
  /\ Len(chunks) = 2
  /\ ~IsUtf8Text(Flat(chunks))
  /\ \A o \in BodyOps : ret[o] = Err("HyperError")

\* C6: on the same source behaviour process_stream and body_to_bytes make
\* the same number of pulls and return the same outcome, for every
\* buffer_size.
C6_ProcessStreamEquivalent ==
  (Done("process_stream") /\ Done("body_to_bytes"))
    => /\ ret["process_stream"] = ret["body_to_bytes"]
       /\ polls["process_stream"] = polls["body_to_bytes"]

C6_Witness ==
  /\ buffer_size = 0
  /\ Len(chunks) = 2 /\ chunks[1] = <<>> /\ chunks[2] # <<>>
  /\ ret["process_stream"] = Ok(chunks[2])
  /\ ret["body_to_bytes"] = Ok(chunks[2])
\* ======================================================================
\* Generic-reader operations (SpecReader)
\* ======================================================================

\* total of the first k read counts
RECURSIVE SumTo(_, _)
SumTo(rs, k) == IF k = 0 THEN 0 ELSE SumTo(rs, k - 1) + rs[k]

\* the bytes the i-th successful read of operation o transferred
Block(o, i) == SubSeq(data, SumTo(reads[o], i - 1) + 1, SumTo(reads[o], i))

\* the reader's failing read was not issued to operation o
NoReadFailed(o) == failAt = 0 \/ polls[o] < failAt

\* C3: to_string validates each read's bytes on their own: as soon as a read
\* has returned a block that is not UTF-8 text by itself the call has failed
\* with an Encoding error (whether or not the whole payload is UTF-8 text),
\* and an Ok result implies that every read block was UTF-8 text.
C3_ToStringPerRead ==
  /\ (\E i \in 1..Len(reads["to_string"]) : ~IsUtf8Text(Block("to_string", i)))
       => ret["to_string"] = Err("EncodingError")
  /\ (Done("to_string") /\ ret["to_string"].tag = "Ok")
       => \A i \in 1..Len(reads["to_string"]) : IsUtf8Text(Block("to_string", i))

\* U+20AC read as [E2 82] then (never) [AC]: the payload is UTF-8 text, the call fails
C3_Witness ==
  /\ data = <<226, 130, 172>>
  /\ IsUtf8Text(data)
  /\ reads["to_string"] = <<2>>
  /\ ret["to_string"] = Err("EncodingError")

\* C5 (safety part): while to_bytes runs, its working buffer has buffer_size
\* elements, no read returned more than buffer_size bytes, and the result so
\* far is exactly the payload prefix the reader has handed out; when it has
\* returned with buffer_size >= 1 and no read failed, it returned
\* Ok(payload), after reads that were all non-empty except the last.
C5_Inv ==
  LET rs == reads["to_bytes"] IN
  /\ call = "to_bytes"
       => /\ Len(buffer) = buffer_size
          /\ \A i \in 1..Len(rs) : rs[i] <= buffer_size
          /\ bytes = SubSeq(data, 1, pos)
  /\ (Done("to_bytes") /\ buffer_size >= 1 /\ NoReadFailed("to_bytes"))
       => /\ ret["to_bytes"] = Ok(data)
          /\ rs # <<>>
          /\ \A i \in 1..Len(rs) : (rs[i] = 0) <=> (i = Len(rs))

\* C5: for every payload of an error-free reader and every buffer_size >= 1,
\* to_bytes terminates, and the safety part above holds throughout.
C5_ToBytesComplete ==
  /\ []C5_Inv
  /\ (buffer_size >= 1 /\ failAt = 0) ~> Done("to_bytes")

\* a full read of 2 then a short read of 1 into the reused buffer of 2
C5_Witness ==
  /\ buffer_size = 2
  /\ Len(data) = 3 /\ data[2] # data[3]
  /\ reads["to_bytes"] = <<2, 1, 0>>
  /\ ret["to_bytes"] = Ok(data)

\* C9: when the reader's failing read k+1 has been issued, to_bytes and
\* to_string have returned an I/O error and nothing else, after exactly k
\* successful non-empty reads and no read after the failing one; the
\* chunk-source operations never report an I/O error and the reader
\* operations never report a Transport error.
C9_ReadErrorTerminal ==
  /\ \A o \in ReaderOps :
       (failAt > 0 /\ polls[o] >= failAt)
         => /\ ret[o] = Err("IoError")
            /\ polls[o] = failAt
            /\ Len(reads[o]) = failAt - 1
            /\ \A i \in 1..Len(reads[o]) : reads[o][i] > 0
  /\ \A o \in BodyOps : ret[o] # Err("IoError")
  /\ \A o \in ReaderOps : ret[o] # Err("HyperError")

\* the third read fails after two one-byte reads
C9_Witness ==
  /\ failAt = 3
  /\ reads["to_bytes"] = <<1, 1>> /\ ret["to_bytes"] = Err("IoError")
  /\ reads["to_string"] = <<1, 1>> /\ ret["to_string"] = Err("IoError")

\* what a chunk-source operation returns, from the source's behaviour alone
BodyOutcome(o) ==
  IF fail THEN Err("HyperError")
  ELSE IF o = "body_to_string" /\ ~IsUtf8Text(Flat(chunks)) THEN Err("EncodingError")
  ELSE Ok(Flat(chunks))

\* C10: with buffer_size 0 the working buffer of to_bytes and to_string is
\* empty, and on a reader whose first read does not fail each of them
\* returns Ok with an empty result after exactly one read that transferred
\* zero bytes, whatever the payload; the outcome of body_to_bytes,
\* body_to_string and process_stream is determined by the source alone.
C10_ZeroBufferSize ==
  /\ \A o \in ReaderOps :
       /\ (buffer_size = 0 /\ call = o) => buffer = <<>>
       /\ (buffer_size = 0 /\ Done(o) /\ failAt # 1)
            => /\ ret[o] = Ok(<<>>)
               /\ polls[o] = 1
               /\ reads[o] = <<0>>
  /\ \A o \in BodyOps : Done(o) => ret[o] = BodyOutcome(o)

C10_Witness ==
  /\ buffer_size = 0
  /\ Len(data) = 3
  /\ ret["to_bytes"] = Ok(<<>>)
  /\ ret["to_string"] = Ok(<<>>)

\* ======================================================================
\* Byte utilities (SpecUtil)
\* ======================================================================

\* C7: concat_bytes returns the chunks' bytes in input order: the empty list
\* gives the empty sequence, the result has the summed length, and
\* splitting the list anywhere and concatenating the two results gives the
\* same sequence; for three chunks it is A ++ B ++ C.
C7_ConcatBytes ==
  Done("concat_bytes")
    => LET r == ret["concat_bytes"].val
           n == Len(chunks)
       IN /\ r = Flat(chunks)
          /\ Len(r) = SumLen(chunks, n)
          /\ chunks = <<>> => r = <<>>
          /\ n = 3 => r = (chunks[1] \o chunks[2]) \o chunks[3]
          /\ \A k \in 0..n :
               concat_bytes(SubSeq(chunks, 1, k)) \o concat_bytes(SubSeq(chunks, k + 1, n)) = r

C7_Witness ==
  /\ chunks = << <<97, 226>>, <<>>, <<130>> >>
  /\ ret["concat_bytes"] = Value(<<97, 226, 130>>)

\* C8: a call of bytes_to_string leaves its input unchanged and returns
\* Some(the input as text) when the input is UTF-8 text and None when it is
\* not.
C8_BytesToString ==
  [][call = "bytes_to_string"
       => /\ data' = data
          /\ ret'["bytes_to_string"] = IF IsUtf8Text(data) THEN Some(data) ELSE None]_vars

C8_Witness ==
  /\ data = <<255, 255, 255>>
  /\ ret["bytes_to_string"] = None
====
